---- MODULE Spec2Model ----
(***************************************************************************)
(* The AI Groundwater Agent (src/app.py): one chat session of the          *)
(* Streamlit script.  The session state (session_id, chat_history,         *)
(* groundwater_data), the "Clear Chat & Graphs" reset, and the main chat   *)
(* logic run for one user message, step by step, with every external call  *)
(* (message log, extraction model, data provider, summarization model,     *)
(* web search) answering nondeterministically: it succeeds or it raises.   *)
(*                                                                         *)
(* The two prompt strings of the source (opened at lines 78 and 314) are   *)
(* read as closing right before the statement that follows them.           *)
(***************************************************************************)
EXTENDS Integers, Sequences, FiniteSets, TLC

\* ---------------------------------------------------------------- bounds
\* The chat history holds at most MaxHistory turns (a message is accepted
\* only while a user turn and a reply still fit).
MaxHistory == 5
\* The extractor names at most MaxLocs locations in one answer.
MaxLocs == 2
\* A provider body holds at most MaxRecs records (normalization alone).
MaxRecs == 2
\* Parseable dataTime values are 1..MaxTime.
MaxTime == 2

\* ------------------------------------------------------- provider bodies
\* One record of the provider: its dataTime key is absent, present but not
\* a date ("bad": pd.to_datetime(errors="coerce") gives NaT) or a date t;
\* its dataValue key is absent or present.
Records ==
    [tkind : {"absent", "bad"}, t : {0}, dataValue : {"absent", "num"}]
      \cup [tkind : {"ok"}, t : 1..MaxTime, dataValue : {"absent", "num"}]

RECURSIVE SeqsUpTo(_, _)
\* All sequences over S of length at most n.
SeqsUpTo(S, n) ==
    IF n = 0 THEN {<<>>}
    ELSE LET shorter == SeqsUpTo(S, n - 1)
         IN  shorter \cup {Append(s, x) : s \in {q \in shorter : Len(q) = n - 1}, x \in S}

\* A JSON value under a wrapper key: the key is absent, or holds something
\* that is no list ("scalar"), or holds a list of records.
Slot(tag, recs) == [tag |-> tag, recs |-> recs]
AbsentSlot == Slot("absent", <<>>)
ScalarSlot == Slot("scalar", <<>>)

\* What fetch_groundwater_api hands to process_groundwater_data:
\*   "none"      None (non-200 status or a request error)
\*   "empty"     the empty string
\*   "malformed" text json.loads rejects
\*   "scalar"    JSON that is neither an object nor a list
\*   "list"      a JSON list of records
\*   "dict"      a JSON object; content, data, result are its wrapper keys
Body(kind, recs, content, data, result) ==
    [kind |-> kind, recs |-> recs, content |-> content, data |-> data, result |-> result]
NoneBody == Body("none", <<>>, AbsentSlot, AbsentSlot, AbsentSlot)
EmptyBody == Body("empty", <<>>, AbsentSlot, AbsentSlot, AbsentSlot)
MalformedBody == Body("malformed", <<>>, AbsentSlot, AbsentSlot, AbsentSlot)
ScalarBody == Body("scalar", <<>>, AbsentSlot, AbsentSlot, AbsentSlot)
ListBody(recs) == Body("list", recs, AbsentSlot, AbsentSlot, AbsentSlot)
DictBody(content, data, result) == Body("dict", <<>>, content, data, result)

\* ------------------------------------------ process_groundwater_data
\* A row of the DataFrame: timestamp 0 is NaT.
Row(rec) == [timestamp |-> IF rec.tkind = "ok" THEN rec.t ELSE 0,
             dataValue |-> rec.dataValue, District |-> "-"]

\* Lines 163-167: the first wrapper key present in the object replaces data.
Unwrap(body) ==
    IF body.kind = "list" THEN Slot("list", body.recs)
    ELSE IF body.kind = "dict" THEN
        IF body.content.tag # "absent" THEN body.content
        ELSE IF body.data.tag # "absent" THEN body.data
        ELSE IF body.result.tag # "absent" THEN body.result
        ELSE ScalarSlot
    ELSE ScalarSlot

\* Line 174: a column exists when at least one record has the key.
HasColumns(recs) ==
    /\ \E i \in 1..Len(recs) : recs[i].tkind # "absent"
    /\ \E i \in 1..Len(recs) : recs[i].dataValue # "absent"

\* Line 178: df.dropna(subset=["timestamp"]).
DropNaT(rows) == SelectSeq(rows, LAMBDA r : r.timestamp # 0)

IsSorted(rows) ==
    \A i \in 1..Len(rows) : \A j \in 1..Len(rows) :
        i < j => rows[i].timestamp <= rows[j].timestamp

\* The faulty variant in which line 182 is left out: the rows stay in the
\* provider's order.
Unsorted(rows) == {rows}
\* Line 182: df.sort_values("timestamp") is run with the default sort kind,
\* which need not be stable: any ordering of the same rows that is sorted.
SortValues(rows) ==
    LET n == Len(rows)
        perms == {p \in [1..n -> 1..n] : \A i, j \in 1..n : i # j => p[i] # p[j]}
    IN  {s \in {[i \in 1..n |-> rows[p[i]]] : p \in perms} : IsSorted(s)}

\* Line 183: df["District"] = district_name.
Stamp(rows, district_name) ==
    [i \in 1..Len(rows) |-> [rows[i] EXCEPT !.District = district_name]]

Rejected == [ok |-> FALSE, df |-> <<>>]

\* Lines 156-188: the set of results (df, is_valid) the call can return.
process_groundwater_data(json_input, district_name) ==
    IF json_input.kind \in {"none", "empty"} THEN {Rejected}
    ELSE IF json_input.kind = "malformed" THEN {Rejected}
    ELSE LET data == Unwrap(json_input) IN
         IF data.tag # "list" THEN {Rejected}
         ELSE IF ~HasColumns(data.recs) THEN {Rejected}
         ELSE LET kept == DropNaT([k \in 1..Len(data.recs) |-> Row(data.recs[k])]) IN
              IF kept = <<>> THEN {Rejected}
              ELSE {[ok |-> TRUE, df |-> Stamp(s, district_name)] : s \in SortValues(kept)}

Districts == {"Raipur", "Bhopal"}

\* ------------------------------------------------------ extraction
\* One entry of "locations": the keys the orchestrator reads.
Loc(has_district, district, has_state, state, has_dates) ==
    [has_district |-> has_district, district |-> district,
     has_state |-> has_state, state |-> state, has_dates |-> has_dates]
FullLoc == Loc(TRUE, "Raipur", TRUE, "Chhattisgarh", TRUE)
NoStateLoc == Loc(TRUE, "Bhopal", FALSE, "", TRUE)
NoDistrictLoc == Loc(FALSE, "", TRUE, "Rajasthan", TRUE)
NoDatesLoc == Loc(TRUE, "Raipur", TRUE, "Chhattisgarh", FALSE)
LocEntries == {FullLoc, NoStateLoc, NoDistrictLoc, NoDatesLoc}
LocLists == SeqsUpTo(LocEntries, MaxLocs)

\* The value json.loads gives: shape "object" (a dict) or "other" (a list, a
\* string, a number, null); is_data_request is absent, false, true, or the
\* non-boolean "yes"; the locations key may be absent.
Params(shape, idr, has_locations, locations) ==
    [shape |-> shape, is_data_request |-> idr,
     has_locations |-> has_locations, locations |-> locations]
FalseParams == Params("object", "false", FALSE, <<>>)
ParsedValues ==
    {Params("other", "absent", FALSE, <<>>),
     Params("object", "absent", FALSE, <<>>),
     FalseParams,
     Params("object", "yes", TRUE, <<FullLoc>>),
     Params("object", "true", FALSE, <<>>)}
      \cup {Params("object", "true", TRUE, locs) : locs \in LocLists}

\* What the extraction model does: the call raises, or its text is no JSON,
\* or its text parses to a value.
LlmAnswers ==
    {[kind |-> "raises", value |-> FalseParams],
     [kind |-> "not_json", value |-> FalseParams]}
      \cup {[kind |-> "json", value |-> v] : v \in ParsedValues}

\* Lines 109-119: whatever json.loads returns is returned; any exception
\* gives {"is_data_request": False}.
extract_params_from_llm(answer) ==
    IF answer.kind = "json" THEN answer.value ELSE FalseParams

\* Line 261: params.get("is_data_request") is tested for truth.
Truthy(idr) == idr \in {"true", "yes"}

\* ------------------------------------------------------------ session
bot_greeting == "Hello! I can compare groundwater trends."
UserTexts == {"Compare Raipur and Bhopal"}
ModelText == "<model text>"
AskDistricts == "I couldn't identify the district names."
NoDataFound == "I couldn't find data for any of the requested locations."
SearchError == "Error during web search"

Uuids == {"uuid-1", "uuid-2"}

Turn(sender, content) == [sender |-> sender, content |-> content]
NoDataset == [present |-> FALSE, rows |-> <<>>]

\* The bodies the data provider answers with in a chat turn.
\* None (the request failed), a list whose records lack dataValue, and a
\* wrapped list of two dated records, out of order, around an undated one.
NoValueField == ListBody(<<[tkind |-> "ok", t |-> 1, dataValue |-> "absent"]>>)
GoodWrapped ==
    DictBody(Slot("list", <<[tkind |-> "ok", t |-> 2, dataValue |-> "num"],
                            [tkind |-> "bad", t |-> 0, dataValue |-> "num"],
                            [tkind |-> "ok", t |-> 1, dataValue |-> "num"]>>),
             AbsentSlot, AbsentSlot)
ProviderBodies == {NoneBody, NoValueField, GoodWrapped}

RECURSIVE Concat(_)
\* Line 295: pd.concat(combined_dfs, ignore_index=True).
Concat(dfs) == IF dfs = <<>> THEN <<>> ELSE Head(dfs) \o Concat(Tail(dfs))

VARIABLES
    session_id,        \* st.session_state.session_id
    chat_history,      \* st.session_state.chat_history
    groundwater_data,  \* st.session_state.groundwater_data, or absent
    db_available,      \* line 61: the message log is configured and connected
    search,            \* line 33/35: "none" or "client"
    pc,                \* position of the script
    user_input,        \* line 248 ("" when the run handles no message)
    llm_answer,        \* line 110: what the extraction model answered
    params,            \* line 259
    i,                 \* index of the loop of line 274
    combined_dfs,      \* line 271
    valid_districts,   \* line 272
    bot_reply,         \* the reply ("" while unbound)
    status,            \* label of the st.status box
    error,             \* the exception st.error shows on line 374 ("" if none)
    json_resp,         \* line 278
    d_name,            \* line 275
    norm,              \* line 285: (df, is_valid)
    calls,             \* history: the external calls made by this run
    hist0,             \* history: chat_history when the last event arrived
    data0              \* history: groundwater_data when the last event arrived

vars == <<session_id, chat_history, groundwater_data, db_available, search, pc,
          user_input, llm_answer, params, i, combined_dfs, valid_districts, bot_reply,
          status, error, json_resp, d_name, norm, calls, hist0, data0>>

session == <<session_id, chat_history, groundwater_data>>
config == <<db_available, search>>
locals == <<user_input, llm_answer, params, i, combined_dfs, valid_districts, bot_reply,
            status, json_resp, d_name, norm>>

\* One external call: the API, the location asked for (requests.get only),
\* and whether it returned (ok) or raised / gave no body.
Call(api, state, district, ok) ==
    [api |-> api, state |-> state, district |-> district, ok |-> ok]

\* Lines 198-203 and the locals of a run that handles no message.
FreshLocals ==
    /\ user_input = ""
    /\ llm_answer = [kind |-> "raises", value |-> FalseParams]
    /\ params = FalseParams
    /\ i = 1
    /\ combined_dfs = <<>>
    /\ valid_districts = <<>>
    /\ bot_reply = ""
    /\ status = ""
    /\ error = ""
    /\ json_resp = NoneBody
    /\ d_name = ""
    /\ norm = Rejected
    /\ calls = <<>>

Init ==
    /\ session_id = "uuid-1"
    /\ chat_history = <<Turn("assistant", bot_greeting)>>
    /\ groundwater_data = NoDataset
    /\ db_available \in BOOLEAN
    /\ search \in {"none", "client"}
    /\ pc = "idle"
    /\ FreshLocals
    /\ hist0 = chat_history
    /\ data0 = groundwater_data

\* ------------------------------------------------- the script's steps
\* Lines 373-374: the exception ends the run under an st.error banner.
Crash(e) ==
    /\ pc' = "idle"
    /\ error' = e

\* Lines 59-71: save_message.  Nothing is called when logging is off;
\* otherwise insert_one is called, and it returns or raises.
SaveOutcomes == IF db_available THEN {"stored", "raises"} ELSE {"skipped"}
LogCalls(outcome) ==
    IF outcome = "skipped" THEN calls
    ELSE Append(calls, Call("insert_one", "", "", outcome = "stored"))

\* A run of the script starts with its locals unbound.
NewRun ==
    /\ llm_answer' = [kind |-> "raises", value |-> FalseParams]
    /\ params' = FalseParams
    /\ i' = 1
    /\ combined_dfs' = <<>>
    /\ valid_districts' = <<>>
    /\ bot_reply' = ""
    /\ status' = ""
    /\ error' = ""
    /\ json_resp' = NoneBody
    /\ d_name' = ""
    /\ norm' = Rejected
    /\ calls' = <<>>

\* Line 248: the chat input delivers a message; the run starts.
Submit(text) ==
    /\ pc = "idle"
    /\ Len(chat_history) + 2 <= MaxHistory
    /\ user_input' = text
    /\ NewRun
    /\ hist0' = chat_history
    /\ data0' = groundwater_data
    /\ pc' = "save_user"
    /\ UNCHANGED <<session, config>>

\* Line 252: save_message(session_id, "user", user_input).
SaveUserMessage ==
    /\ pc = "save_user"
    /\ \E outcome \in SaveOutcomes :
         /\ calls' = LogCalls(outcome)
         /\ IF outcome = "raises" THEN Crash("insert_one")
            ELSE pc' = "append_user" /\ UNCHANGED error
    /\ UNCHANGED <<session, config, locals, hist0, data0>>

\* Lines 253-255: the user turn is appended.
AppendUserTurn ==
    /\ pc = "append_user"
    /\ chat_history' = Append(chat_history, Turn("user", user_input))
    /\ status' = "Processing Request..."
    /\ pc' = "extract"
    /\ UNCHANGED <<session_id, groundwater_data, config, user_input, llm_answer,
                   params, i, combined_dfs, valid_districts, bot_reply, error,
                   json_resp, d_name, norm, calls, hist0, data0>>

\* Lines 37, 47 and 110: client is the genai client until a MongoClient is
\* bound to the same name; client.models.generate_content is then a pymongo
\* collection, and calling it raises.
ExtractionAnswers ==
    IF db_available THEN {[kind |-> "raises", value |-> FalseParams]} ELSE LlmAnswers

\* Line 259: params = extract_params_from_llm(user_input).
Extract ==
    /\ pc = "extract"
    /\ \E answer \in ExtractionAnswers :
         /\ llm_answer' = answer
         /\ params' = extract_params_from_llm(answer)
         /\ calls' = Append(calls, Call("generate_content", "", "", answer.kind # "raises"))
    /\ pc' = "dispatch"
    /\ UNCHANGED <<session, config, user_input, i, combined_dfs, valid_districts,
                   bot_reply, status, error, json_resp, d_name, norm, hist0, data0>>

\* Line 262: params.get("locations", []).
Locations == IF params.has_locations THEN params.locations ELSE <<>>

\* Lines 261-272 and 338-339: the branch is chosen.  params.get raises on
\* a value that is no dict.
Dispatch ==
    /\ pc = "dispatch"
    /\ IF params.shape # "object"
       THEN Crash("AttributeError") /\ UNCHANGED <<bot_reply, status>>
       ELSE IF ~Truthy(params.is_data_request)
       THEN pc' = "general" /\ UNCHANGED <<bot_reply, status, error>>
       ELSE IF Locations = <<>>
       THEN /\ bot_reply' = AskDistricts
            /\ status' = "Error"
            /\ pc' = "save_reply"
            /\ UNCHANGED error
       ELSE pc' = "fetch" /\ UNCHANGED <<bot_reply, status, error>>
    /\ UNCHANGED <<session, config, user_input, llm_answer, params, i, combined_dfs,
                   valid_districts, json_resp, d_name, norm, calls, hist0, data0>>

\* Lines 122-153: one GET per call; a non-200 status or a request error
\* gives None, otherwise the body text.
fetch_groundwater_api == ProviderBodies

\* The faulty variant in which a request that gave None is sent again.
RequestsRetried(loc, resp) ==
    LET call == Call("requests.get", IF loc.has_state THEN loc.state ELSE "",
                     loc.district, resp # NoneBody)
    IN  IF resp = NoneBody THEN <<call, call>> ELSE <<call>>
\* Lines 278-283: the requests one pass of the loop sends, with
\* loc.get("state", "") as the state.
Requests(loc, resp) ==
    <<Call("requests.get", IF loc.has_state THEN loc.state ELSE "",
           loc.district, resp # NoneBody)>>

\* Lines 274-292: one pass of the loop.  loc["district"], loc["start_date"]
\* and loc["end_date"] raise KeyError on a missing key, before the request.
FetchLocation ==
    /\ pc = "fetch"
    /\ LET loc == Locations[i] IN
       IF ~loc.has_district \/ ~loc.has_dates
       THEN /\ Crash("KeyError")
            /\ d_name' = IF loc.has_district THEN loc.district ELSE d_name
            /\ UNCHANGED <<i, combined_dfs, valid_districts, json_resp, norm, calls>>
       ELSE /\ d_name' = loc.district
            /\ \E resp \in fetch_groundwater_api :
                 /\ json_resp' = resp
                 /\ calls' = calls \o Requests(loc, resp)
                 /\ \E res \in process_groundwater_data(resp, loc.district) :
                      /\ norm' = res
                      /\ IF res.ok /\ res.df # <<>>
                         THEN /\ combined_dfs' = Append(combined_dfs, res.df)
                              /\ valid_districts' = Append(valid_districts, loc.district)
                         ELSE UNCHANGED <<combined_dfs, valid_districts>>
            /\ i' = i + 1
            /\ pc' = IF i + 1 > Len(Locations) THEN "aggregate" ELSE "fetch"
            /\ UNCHANGED error
    /\ UNCHANGED <<session, config, user_input, llm_answer, params, bot_reply,
                   status, hist0, data0>>

\* Lines 295-296: the new dataset.
final_df == [present |-> TRUE, rows |-> Concat(combined_dfs)]

\* The faulty variant in which a turn without valid data drops the dataset.
ClearedWhenNoneValid == NoDataset
\* Lines 328-336: the branch assigns nothing to groundwater_data.
DataWhenNoneValid == groundwater_data

\* Lines 294-299 and 328-336.
Aggregate ==
    /\ pc = "aggregate"
    /\ IF combined_dfs # <<>>
       THEN /\ groundwater_data' = final_df
            /\ status' = "Comparison Ready!"
            /\ pc' = "summarize"
            /\ UNCHANGED bot_reply
       ELSE /\ status' = "No Data Found"
            /\ bot_reply' = NoDataFound
            /\ pc' = "save_reply"
            /\ groundwater_data' = DataWhenNoneValid
    /\ UNCHANGED <<session_id, chat_history, config, user_input, llm_answer, params,
                   i, combined_dfs, valid_districts, error, json_resp, d_name, norm,
                   calls, hist0, data0>>

\* Lines 301-327: model.generate_content(analysis_prompt), outside any
\* inner try.
Summarize ==
    /\ pc = "summarize"
    /\ \/ /\ calls' = Append(calls, Call("generate_content", "", "", TRUE))
          /\ bot_reply' = ModelText
          /\ pc' = "save_reply"
          /\ UNCHANGED error
       \/ /\ calls' = Append(calls, Call("generate_content", "", "", FALSE))
          /\ Crash("generate_content")
          /\ UNCHANGED bot_reply
    /\ UNCHANGED <<session, config, user_input, llm_answer, params, i, combined_dfs,
                   valid_districts, status, json_resp, d_name, norm, hist0, data0>>

\* Lines 339-365: the general reply; every exception of the branch is
\* caught on line 363.
GeneralReply ==
    /\ pc = "general"
    /\ \E found \in (IF search = "client" THEN {"raises", "overview", "no_blocks", "plain"}
                     ELSE {"unsearched"}) :
       \E answered \in BOOLEAN :
         /\ calls' = calls
                \o (IF found = "unsearched" THEN <<>>
                    ELSE <<Call("search", "", "", found # "raises")>>)
                \o (IF found \in {"raises", "no_blocks"} THEN <<>>
                    ELSE <<Call("generate_content", "", "", answered)>>)
         /\ bot_reply' = IF found \in {"raises", "no_blocks"} \/ ~answered
                         THEN SearchError ELSE ModelText
    /\ status' = "Replied"
    /\ pc' = "save_reply"
    /\ UNCHANGED <<session, config, user_input, llm_answer, params, i, combined_dfs,
                   valid_districts, error, json_resp, d_name, norm, hist0, data0>>

\* Line 367: save_message(session_id, "assistant", bot_reply).
SaveReply ==
    /\ pc = "save_reply"
    /\ \E outcome \in SaveOutcomes :
         /\ calls' = LogCalls(outcome)
         /\ IF outcome = "raises" THEN Crash("insert_one")
            ELSE pc' = "append_reply" /\ UNCHANGED error
    /\ UNCHANGED <<session, config, locals, hist0, data0>>

\* Lines 368-371: the reply is appended and the script reruns.
AppendReply ==
    /\ pc = "append_reply"
    /\ chat_history' = Append(chat_history, Turn("assistant", bot_reply))
    /\ pc' = "idle"
    /\ UNCHANGED <<session_id, groundwater_data, config, locals, error, calls,
                   hist0, data0>>

\* Lines 199 and 209: uuid.uuid4() draws a value other than the one in use.
uuid4 == Uuids \ {session_id}

\* The faulty variant in which the reset leaves the graphs in place.
KeepGraphs == groundwater_data
\* Lines 213-214: del st.session_state.groundwater_data.
ClearedData == NoDataset

\* Lines 208-215: "Clear Chat & Graphs".  hist0 and data0 keep what the
\* click found.
ClearChat ==
    /\ pc = "idle"
    /\ session_id' \in uuid4
    /\ chat_history' = <<Turn("assistant", bot_greeting)>>
    /\ groundwater_data' = ClearedData
    /\ user_input' = ""
    /\ NewRun
    /\ hist0' = chat_history
    /\ data0' = groundwater_data
    /\ UNCHANGED <<config, pc>>

Next ==
    \/ \E text \in UserTexts : Submit(text)
    \/ SaveUserMessage
    \/ AppendUserTurn
    \/ Extract
    \/ Dispatch
    \/ FetchLocation
    \/ Aggregate
    \/ Summarize
    \/ GeneralReply
    \/ SaveReply
    \/ AppendReply
    \/ ClearChat

Spec == Init /\ [][Next]_vars

\* --------------------------------------------- normalization on its own
\* process_groundwater_data applied once to every body of at most MaxRecs
\* records and every label.  Under a wrapper key of an object there is
\* nothing, a value that is no list, the list recs, or a fixed other list.
SlotTags == {"absent", "scalar", "list", "other"}
SlotOf(tag, recs) ==
    IF tag = "list" THEN Slot("list", recs)
    ELSE IF tag = "other"
    THEN Slot("list", <<[tkind |-> "ok", t |-> 1, dataValue |-> "num"]>>)
    ELSE Slot(tag, <<>>)

NormInit ==
    /\ session_id = "uuid-1"
    /\ chat_history = <<Turn("assistant", bot_greeting)>>
    /\ groundwater_data = NoDataset
    /\ db_available = FALSE
    /\ search = "none"
    /\ pc = "normalize"
    /\ user_input = ""
    /\ llm_answer = [kind |-> "raises", value |-> FalseParams]
    /\ params = FalseParams
    /\ i = 1
    /\ combined_dfs = <<>>
    /\ valid_districts = <<>>
    /\ bot_reply = ""
    /\ status = ""
    /\ error = ""
    /\ \/ json_resp \in {NoneBody, EmptyBody, MalformedBody, ScalarBody}
       \/ \E recs \in SeqsUpTo(Records, MaxRecs) : json_resp = ListBody(recs)
       \/ \E recs \in SeqsUpTo(Records, MaxRecs) :
            \E ct \in SlotTags, dt \in SlotTags, rt \in SlotTags :
               json_resp = DictBody(SlotOf(ct, recs), SlotOf(dt, recs), SlotOf(rt, recs))
    /\ d_name \in Districts
    /\ norm = Rejected
    /\ calls = <<>>
    /\ hist0 = chat_history
    /\ data0 = groundwater_data

ProcessCall ==
    /\ pc = "normalize"
    /\ norm' \in process_groundwater_data(json_resp, d_name)
    /\ pc' = "normalized"
    /\ UNCHANGED <<session, config, user_input, llm_answer, params, i, combined_dfs,
                   valid_districts, bot_reply, status, error, json_resp, d_name,
                   calls, hist0, data0>>

NormNext == ProcessCall

SpecNorm == NormInit /\ [][NormNext]_vars

\* ------------------------------------------------------------ properties
\* The last run handled a message and is over (it reran or showed st.error).
TurnEnded == pc = "idle" /\ user_input # ""

IsPrefix(h, g) == Len(h) <= Len(g) /\ SubSeq(g, 1, Len(h)) = h

\* The history is what the message found, then the user turn.
UserTurnAppended ==
    /\ Len(chat_history) > Len(hist0)
    /\ IsPrefix(hist0, chat_history)
    /\ chat_history[Len(hist0) + 1] = Turn("user", user_input)

\* ... then exactly one assistant turn.
ReplyAppended ==
    /\ UserTurnAppended
    /\ Len(chat_history) = Len(hist0) + 2
    /\ chat_history[Len(hist0) + 2].sender = "assistant"

\* The extraction call was made in this run.
Extracted == \E k \in 1..Len(calls) : calls[k].api = "generate_content"
LogFailed == \E k \in 1..Len(calls) : calls[k].api = "insert_one" /\ ~calls[k].ok

\* The (state, district) pairs of the requests of this run, in order.
FetchCalls == SelectSeq(calls, LAMBDA c : c.api = "requests.get")
Fetched == [k \in 1..Len(FetchCalls) |-> <<FetchCalls[k].state, FetchCalls[k].district>>]
Asked(locs) ==
    [k \in 1..Len(locs) |-> <<IF locs[k].has_state THEN locs[k].state ELSE "",
                              locs[k].district>>]

\* An entry with the keys of a location query: district and both dates
\* (the keys lines 275-282 index; an entry without dates raises KeyError
\* before any request).
WellFormed(loc) == loc.has_district /\ loc.has_dates

\* C1: every user turn, whatever external call fails, ends with exactly one
\* assistant reply appended to the chat history (after the user turn).
C1_EveryTurnEndsWithOneReply == TurnEnded => ReplyAppended

\* C2: whatever external call fails, the chat history at the end of the
\* turn contains the user's message, right after what was there before.
C2_UserTurnSurvivesFailures == TurnEnded => UserTurnAppended

\* C3: a turn in which a message-log write failed (and nothing else ended
\* the run) still ran extraction and appended the user turn and the reply.
C3_LogFailureNeverBlocks ==
    (TurnEnded /\ LogFailed /\ error \in {"", "insert_one"})
        => (Extracted /\ ReplyAppended)

\* C4: after a turn in which at least one location was fetched and
\* normalized, the dataset is exactly the concatenation, in request order,
\* of this turn's normalized tables, every row labelled with the district
\* whose table it came from, every label a requested district.
C4_DatasetIsThisTurnsTables ==
    (TurnEnded /\ combined_dfs # <<>>) =>
        /\ groundwater_data = [present |-> TRUE, rows |-> Concat(combined_dfs)]
        /\ Len(combined_dfs) = Len(valid_districts)
        /\ \A k \in 1..Len(combined_dfs) : \A r \in 1..Len(combined_dfs[k]) :
              combined_dfs[k][r].District = valid_districts[k]
        /\ \A r \in 1..Len(groundwater_data.rows) :
              \E k \in 1..Len(Locations) :
                 /\ Locations[k].has_district
                 /\ Locations[k].district = groundwater_data.rows[r].District

\* The statement of C4 on the turns that reach line 294 (no KeyError in
\* the loop): kept as a check of what the aggregation itself does.
DatasetIsThisTurnsTablesWhenAggregated ==
    (TurnEnded /\ combined_dfs # <<>> /\ error # "KeyError") =>
        /\ groundwater_data = [present |-> TRUE, rows |-> Concat(combined_dfs)]
        /\ \A r \in 1..Len(groundwater_data.rows) :
              \E k \in 1..Len(valid_districts) :
                 valid_districts[k] = groundwater_data.rows[r].District

BadAnswer(answer) ==
    \/ answer.kind # "json"
    \/ answer.value.shape # "object"
    \/ answer.value.is_data_request \notin {"true", "false"}

\* C6: after a failed call, unparseable text or a value that is no object
\* with a boolean is_data_request, the extraction result counts as false
\* with no locations and the turn takes the general-reply branch.
C6_BadExtractionIsGeneralChat ==
    (TurnEnded /\ Extracted /\ BadAnswer(llm_answer)) =>
        /\ params.shape = "object"
        /\ ~Truthy(params.is_data_request)
        /\ Locations = <<>>
        /\ status = "Replied"

\* C7: once the turn has taken the general-reply branch ("Replied"), the
\* zero-locations branch ("Error") or the no-valid-data branch ("No Data
\* Found"), the dataset is the one the message found, present or absent.
C7_DatasetUntouched ==
    status \in {"Replied", "Error", "No Data Found"} => groundwater_data = data0

\* C7 witness: a turn ended in which two locations were requested and none
\* gave a table, while a dataset of an earlier turn was on display.
C7_Witness ==
    /\ TurnEnded
    /\ status = "No Data Found"
    /\ Len(FetchCalls) = 2
    /\ data0.present
    /\ groundwater_data.present

\* The cases in which C8 asks for a rejection.
MustReject(body) ==
    \/ body.kind \in {"none", "empty", "malformed"}
    \/ Unwrap(body).tag # "list"
    \/ \A k \in 1..Len(Unwrap(body).recs) : Unwrap(body).recs[k].tkind = "absent"
    \/ \A k \in 1..Len(Unwrap(body).recs) : Unwrap(body).recs[k].dataValue = "absent"
    \/ \A k \in 1..Len(Unwrap(body).recs) : Unwrap(body).recs[k].tkind # "ok"

\* C8: normalization returns a rejection (no table) or a table that is not
\* empty, has no NaT timestamp, is sorted non-decreasing by timestamp and
\* carries the given label on every row; it rejects when the body does not
\* parse, no record list is found, the time or the value field is absent,
\* or no row has a parseable time.
C8_NormalizedTable ==
    pc = "normalized" =>
        /\ norm.ok =>
             /\ norm.df # <<>>
             /\ \A k \in 1..Len(norm.df) :
                   norm.df[k].timestamp # 0 /\ norm.df[k].District = d_name
             /\ \A k \in 1..Len(norm.df) : \A m \in 1..Len(norm.df) :
                   k < m => norm.df[k].timestamp <= norm.df[m].timestamp
        /\ ~norm.ok => norm.df = <<>>
        /\ MustReject(json_resp) => ~norm.ok

\* C8 witness: a wrapped list whose two records arrive latest first was
\* normalized into a table of two rows.
C8_Witness ==
    /\ pc = "normalized"
    /\ norm.ok
    /\ json_resp.kind = "dict"
    /\ Len(Unwrap(json_resp).recs) = 2
    /\ Unwrap(json_resp).recs[1].t > Unwrap(json_resp).recs[2].t
    /\ Len(norm.df) = 2

\* The entries that name a district.
WithDistrict(locs) == SelectSeq(locs, LAMBDA loc : loc.has_district)

\* C9: in a data-request turn with an entry that has no district (all
\* entries dated, no log or summarization failure), the entry is dropped:
\* the other entries are the requests sent, a missing state sent as "",
\* and the turn ends with a reply.
C9_MissingDistrictDropped ==
    (/\ TurnEnded /\ Extracted
     /\ params.shape = "object" /\ Truthy(params.is_data_request)
     /\ \E k \in 1..Len(Locations) : ~Locations[k].has_district
     /\ \A k \in 1..Len(Locations) : Locations[k].has_dates
     /\ error \notin {"insert_one", "generate_content"})
        => (ReplyAppended /\ Fetched = Asked(WithDistrict(Locations)))

\* C10: a step of "Clear Chat & Graphs" (the only step from idle to idle)
\* changes session_id, leaves the greeting as the whole chat history and
\* no dataset; every other step keeps session_id and only appends to the
\* chat history.
C10_ResetAndAppendOnly ==
    [][IF pc = "idle" /\ pc' = "idle"
       THEN /\ session_id' # session_id
            /\ chat_history' = <<Turn("assistant", bot_greeting)>>
            /\ groundwater_data' = NoDataset
       ELSE /\ session_id' = session_id
            /\ IsPrefix(chat_history, chat_history')]_vars

\* C10 witness: the reset has run on a session that held a finished turn
\* and a dataset.
C10_Witness ==
    /\ pc = "idle" /\ user_input = ""
    /\ Len(hist0) >= 3
    /\ data0.present
    /\ session_id # "uuid-1"
    /\ chat_history = <<Turn("assistant", bot_greeting)>>
    /\ ~groundwater_data.present

====
